---- MODULE Spec2Model ----
(***************************************************************************)
(* Model of podai.py: the AutonomousAI object (memory, goals, the action   *)
(* dispatch table and its handlers), the background task ai_loop and the   *)
(* POST /interact handler, both running on one asyncio event loop.         *)
(*                                                                         *)
(* A step of the model is the code that runs between two suspension points *)
(* of a coroutine.  get_system_state and the handlers are coroutines       *)
(* without an inner suspension (the docker client is synchronous), so the  *)
(* only points where the two tasks interleave are  await llm.ainvoke  and  *)
(* await asyncio.sleep.                                                    *)
(***************************************************************************)
EXTENDS Integers, Sequences, FiniteSets, TLC

VARIABLES
    memory,      \* ai_manager.memory : list of {timestamp, decision}
    goals,       \* ai_manager.goals  : list of goals
    containers,  \* names of the units the docker daemon holds
    clock,       \* datetime.now(), advanced by every reading
    pc,          \* per task: the suspension point it is parked at
    ctx,         \* per task: self.memory[-10:] as read for the prompt in flight
    streak,      \* consecutive cycles of ai_loop that ended in its except clause
    last         \* what the step just taken did (observation only)

vars == <<memory, goals, containers, clock, pc, ctx, streak, last>>

-----------------------------------------------------------------------------
(* Bounds of the model *)

MaxMemory == 2       \* appends to memory in the full specification
MaxGoals == 2        \* appends to goals
MaxStreak == 2       \* the streak counter saturates here
MaxMemoryLong == 11  \* appends to memory in the long-history specification

(* Program constants *)

RecentWindow == 10   \* self.memory[-10:]
SleepInterval == 60  \* asyncio.sleep(60)

-----------------------------------------------------------------------------
(* Tasks *)

Loop == "ai_loop"
Req == "interact"
Tasks == {Loop, Req}

Units == {"web", "db"}

-----------------------------------------------------------------------------
(* JSON values.  A decoded value is a record of fixed shape: `object` says  *)
(* whether it is a JSON object, `keys` which of the four decision keys it   *)
(* holds; a key that is absent keeps a filler that is never read.           *)
(* A parameters value is a set of <<key, value>> pairs when it is a JSON    *)
(* object, and a scalar otherwise.                                          *)

Mapping(items) == [mapping |-> TRUE, items |-> items, scalar |-> ""]
Scalar(s) == [mapping |-> FALSE, items |-> {}, scalar |-> s]
NoParams == Mapping({})

DecisionKeys == {"thought_process", "action", "parameters", "explanation"}

Obj(keys, tp, a, p, e) ==
    [object |-> TRUE, keys |-> keys, thought_process |-> tp, action |-> a,
     parameters |-> p, explanation |-> e]

Full(a, p) == Obj(DecisionKeys, "t", a, p, "e")

Number5 ==
    [object |-> FALSE, keys |-> {}, thought_process |-> "", action |-> "",
     parameters |-> NoParams, explanation |-> ""]

Keys(p) == {kv[1] : kv \in p.items}
Get(p, k) == (CHOOSE kv \in p.items : kv[1] = k)[2]

-----------------------------------------------------------------------------
(* The oracle's answers (llm.ainvoke returns a string) and json.loads on them *)

TxtNotJson == "not json"
TxtNumber == "5"
TxtNoParams == "{\"thought_process\":\"t\",\"action\":\"list_containers\",\"explanation\":\"e\"}"
TxtNone == "{\"thought_process\":\"t\",\"action\":\"none\",\"parameters\":{},\"explanation\":\"e\"}"
TxtUnknown == "{\"thought_process\":\"t\",\"action\":\"restart_host\",\"parameters\":{\"name\":\"db\"},\"explanation\":\"e\"}"
TxtUnknownScalar == "{\"thought_process\":\"t\",\"action\":\"restart_host\",\"parameters\":\"now\",\"explanation\":\"e\"}"
TxtDelete == "{\"thought_process\":\"t\",\"action\":\"delete_container\",\"parameters\":{\"name\":\"db\"},\"explanation\":\"e\"}"
TxtDeleteNoName == "{\"thought_process\":\"t\",\"action\":\"delete_container\",\"parameters\":{},\"explanation\":\"e\"}"
TxtDeleteScalar == "{\"thought_process\":\"t\",\"action\":\"delete_container\",\"parameters\":\"db\",\"explanation\":\"e\"}"
TxtSetGoal == "{\"thought_process\":\"t\",\"action\":\"set_goal\",\"parameters\":{\"goal\":\"reduce idle containers\"},\"explanation\":\"e\"}"
TxtSetGoal2 == "{\"thought_process\":\"t\",\"action\":\"set_goal\",\"parameters\":{\"goal\":\"keep db up\"},\"explanation\":\"e\"}"
TxtSetGoalExtra == "{\"thought_process\":\"t\",\"action\":\"set_goal\",\"parameters\":{\"goal\":\"keep db up\",\"priority\":\"1\"},\"explanation\":\"e\"}"
TxtCreate == "{\"thought_process\":\"t\",\"action\":\"create_container\",\"parameters\":{\"name\":\"web\",\"image\":\"nginx\"},\"explanation\":\"e\"}"
TxtModify == "{\"thought_process\":\"t\",\"action\":\"modify_container\",\"parameters\":{\"name\":\"db\",\"mem_limit\":\"1g\"},\"explanation\":\"e\"}"
TxtList == "{\"thought_process\":\"t\",\"action\":\"list_containers\",\"parameters\":{},\"explanation\":\"e\"}"
TxtLogs == "{\"thought_process\":\"t\",\"action\":\"get_container_logs\",\"parameters\":{\"name\":\"db\",\"lines\":\"5\"},\"explanation\":\"e\"}"
TxtExec == "{\"thought_process\":\"t\",\"action\":\"execute_in_container\",\"parameters\":{\"name\":\"db\",\"command\":\"ls\"},\"explanation\":\"e\"}"

\* json.loads(response): the decoded value, or JSONDecodeError
Decoded(v) == [ok |-> TRUE, value |-> v]
JSONDecodeError == [ok |-> FALSE, value |-> Number5]

JsonLoads(text) ==
    CASE text = TxtNotJson -> JSONDecodeError
      [] text = TxtNumber -> Decoded(Number5)
      [] text = TxtNoParams ->
            Decoded(Obj(DecisionKeys \ {"parameters"}, "t", "list_containers", NoParams, "e"))
      [] text = TxtNone -> Decoded(Full("none", NoParams))
      [] text = TxtUnknown -> Decoded(Full("restart_host", Mapping({<<"name", "db">>})))
      [] text = TxtUnknownScalar -> Decoded(Full("restart_host", Scalar("now")))
      [] text = TxtDelete -> Decoded(Full("delete_container", Mapping({<<"name", "db">>})))
      [] text = TxtDeleteNoName -> Decoded(Full("delete_container", NoParams))
      [] text = TxtDeleteScalar -> Decoded(Full("delete_container", Scalar("db")))
      [] text = TxtSetGoal ->
            Decoded(Full("set_goal", Mapping({<<"goal", "reduce idle containers">>})))
      [] text = TxtSetGoal2 -> Decoded(Full("set_goal", Mapping({<<"goal", "keep db up">>})))
      [] text = TxtSetGoalExtra ->
            Decoded(Full("set_goal", Mapping({<<"goal", "keep db up">>, <<"priority", "1">>})))
      [] text = TxtCreate ->
            Decoded(Full("create_container", Mapping({<<"name", "web">>, <<"image", "nginx">>})))
      [] text = TxtModify ->
            Decoded(Full("modify_container", Mapping({<<"name", "db">>, <<"mem_limit", "1g">>})))
      [] text = TxtList -> Decoded(Full("list_containers", NoParams))
      [] text = TxtLogs ->
            Decoded(Full("get_container_logs", Mapping({<<"name", "db">>, <<"lines", "5">>})))
      [] text = TxtExec ->
            Decoded(Full("execute_in_container", Mapping({<<"name", "db">>, <<"command", "ls">>})))

\* the decision think() returns when the text does not decode
Fallback ==
    Obj(DecisionKeys, "Error in decision making", "none", NoParams,
        "There was an error in processing the AI's response.")

-----------------------------------------------------------------------------
(* Action results, and what a call of a handler comes to.  `fault` is the   *)
(* number of the backend call of the step that fails (0: none does).        *)

Faults == 0..2

Result(kind, text) == [kind |-> kind, text |-> text]
NoResult == Result("none", <<>>)

Outcome(exc, result, g, c, events) ==
    [exc |-> exc, result |-> result, goals |-> g, containers |-> c, events |-> events]

Called(name) == <<"handler", name>>
Backend(op, unit) == <<"backend", op, unit>>

create_container(p, g, c, fault) ==
    LET name == Get(p, "name")
        ev == <<Called("create_container"), Backend("run", name)>>
    IN  IF fault = 1 \/ name \in c
        THEN Outcome("APIError", NoResult, g, c, ev)
        ELSE Outcome("", Result("message", <<"Container created: ", name, " (", "id", ")">>),
                     g, c \cup {name}, ev)

\* delete_container that calls remove a second time when the first call fails
delete_container_Retry(p, g, c, fault) ==
    LET name == Get(p, "name")
        get == <<Called("delete_container"), Backend("get", name)>>
    IN  IF fault = 1 THEN Outcome("APIError", NoResult, g, c, get)
        ELSE IF name \notin c THEN Outcome("NotFound", NoResult, g, c, get)
        ELSE Outcome("", Result("message", <<"Container deleted: ", name>>), g, c \ {name},
                     IF fault = 2
                     THEN get \o <<Backend("remove", name), Backend("remove", name)>>
                     ELSE Append(get, Backend("remove", name)))

delete_container(p, g, c, fault) ==
    LET name == Get(p, "name")
        get == <<Called("delete_container"), Backend("get", name)>>
    IN  IF fault = 1 THEN Outcome("APIError", NoResult, g, c, get)
        ELSE IF name \notin c THEN Outcome("NotFound", NoResult, g, c, get)
        ELSE IF fault = 2
             THEN Outcome("APIError", NoResult, g, c, Append(get, Backend("remove", name)))
        ELSE Outcome("", Result("message", <<"Container deleted: ", name>>),
                     g, c \ {name}, Append(get, Backend("remove", name)))

modify_container(p, g, c, fault) ==
    LET name == Get(p, "name")
        get == <<Called("modify_container"), Backend("get", name)>>
    IN  IF fault = 1 THEN Outcome("APIError", NoResult, g, c, get)
        ELSE IF name \notin c THEN Outcome("NotFound", NoResult, g, c, get)
        ELSE IF fault = 2
             THEN Outcome("APIError", NoResult, g, c, Append(get, Backend("update", name)))
        ELSE Outcome("", Result("message", <<"Container modified: ", name>>),
                     g, c, Append(get, Backend("update", name)))

\* set_goal that replaces the list: self.goals = [goal]
set_goal_Replace(p, g, c, fault) ==
    LET goal == Get(p, "goal")
    IN  Outcome("", Result("message", <<"New goal set: ", goal>>), <<goal>>, c,
                <<Called("set_goal"), <<"goals.append", goal>>>>)

\* set_goal with the goal put in front: self.goals.insert(0, goal)
set_goal_Front(p, g, c, fault) ==
    LET goal == Get(p, "goal")
    IN  Outcome("", Result("message", <<"New goal set: ", goal>>), <<goal>> \o g, c,
                <<Called("set_goal"), <<"goals.append", goal>>>>)

set_goal(p, g, c, fault) ==
    LET goal == Get(p, "goal")
    IN  Outcome("", Result("message", <<"New goal set: ", goal>>), Append(g, goal), c,
                <<Called("set_goal"), <<"goals.append", goal>>>>)

list_containers(p, g, c, fault) ==
    LET ev == <<Called("list_containers"), Backend("list", "*")>>
    IN  IF fault = 1 THEN Outcome("APIError", NoResult, g, c, ev)
        ELSE Outcome("", Result("containers", <<>>), g, c, ev)

get_container_logs(p, g, c, fault) ==
    LET name == Get(p, "name")
        get == <<Called("get_container_logs"), Backend("get", name)>>
    IN  IF fault = 1 THEN Outcome("APIError", NoResult, g, c, get)
        ELSE IF name \notin c THEN Outcome("NotFound", NoResult, g, c, get)
        ELSE IF fault = 2
             THEN Outcome("APIError", NoResult, g, c, Append(get, Backend("logs", name)))
        ELSE Outcome("", Result("logs", <<"tail">>), g, c, Append(get, Backend("logs", name)))

execute_in_container(p, g, c, fault) ==
    LET name == Get(p, "name")
        get == <<Called("execute_in_container"), Backend("get", name)>>
    IN  IF fault = 1 THEN Outcome("APIError", NoResult, g, c, get)
        ELSE IF name \notin c THEN Outcome("NotFound", NoResult, g, c, get)
        ELSE IF fault = 2
             THEN Outcome("APIError", NoResult, g, c, Append(get, Backend("exec_run", name)))
        ELSE Outcome("", Result("exec", <<"exit_code", "output">>), g, c,
                     Append(get, Backend("exec_run", name)))

-----------------------------------------------------------------------------
(* The dispatch table and execute_action *)

Signature(required, optional, kwargs, coroutine) ==
    [required |-> required, optional |-> optional, kwargs |-> kwargs,
     coroutine |-> coroutine]

\* self.action_dispatch, with each handler's parameter list; set_goal is the
\* one handler declared with def instead of async def
action_dispatch ==
    [create_container |-> Signature({"name", "image"}, {}, TRUE, TRUE),
     delete_container |-> Signature({"name"}, {}, FALSE, TRUE),
     modify_container |-> Signature({"name"}, {}, TRUE, TRUE),
     set_goal |-> Signature({"goal"}, {}, FALSE, FALSE),
     list_containers |-> Signature({}, {}, FALSE, TRUE),
     get_container_logs |-> Signature({"name"}, {"lines"}, FALSE, TRUE),
     execute_in_container |-> Signature({"name", "command"}, {}, FALSE, TRUE)]

\* action_function(**parameters) binds: parameters is a mapping, every
\* required name is given, and no other name unless the handler takes **kwargs
Binds(sig, p) ==
    /\ p.mapping
    /\ sig.required \subseteq Keys(p)
    /\ sig.kwargs \/ Keys(p) \subseteq (sig.required \cup sig.optional)

Invoke(action, p, g, c, fault) ==
    CASE action = "create_container" -> create_container(p, g, c, fault)
      [] action = "delete_container" -> delete_container(p, g, c, fault)
      [] action = "modify_container" -> modify_container(p, g, c, fault)
      [] action = "set_goal" -> set_goal(p, g, c, fault)
      [] action = "list_containers" -> list_containers(p, g, c, fault)
      [] action = "get_container_logs" -> get_container_logs(p, g, c, fault)
      [] action = "execute_in_container" -> execute_in_container(p, g, c, fault)

\* await of the value the handler call gave: a coroutine runs to its result or
\* its exception, anything else is TypeError (the call itself has happened)
Await(sig, o) ==
    IF o.exc = "" /\ ~sig.coroutine
    THEN [o EXCEPT !.exc = "TypeError", !.result = NoResult]
    ELSE o

\* execute_action with the table subscripted: self.action_dispatch[action]
execute_action_Subscript(action, p, g, c, fault) ==
    IF action \in DOMAIN action_dispatch
    THEN LET sig == action_dispatch[action]
         IN  IF Binds(sig, p)
             THEN Await(sig, Invoke(action, p, g, c, fault))
             ELSE Outcome("TypeError", NoResult, g, c, <<>>)
    ELSE Outcome("KeyError", NoResult, g, c, <<>>)

\* execute_action with a default handler:
\* self.action_dispatch.get(action, self.list_containers)
execute_action_Default(action, p, g, c, fault) ==
    LET known == IF action \in DOMAIN action_dispatch THEN action ELSE "list_containers"
        sig == action_dispatch[known]
    IN  IF Binds(sig, p)
        THEN Await(sig, Invoke(known, p, g, c, fault))
        ELSE Outcome("TypeError", NoResult, g, c, <<>>)

execute_action(action, p, g, c, fault) ==
    IF action \in DOMAIN action_dispatch
    THEN LET sig == action_dispatch[action]
         IN  IF Binds(sig, p)
             THEN Await(sig, Invoke(action, p, g, c, fault))
             ELSE Outcome("TypeError", NoResult, g, c, <<>>)
    ELSE Outcome("", Result("error", <<"Unknown action: ", action>>), g, c, <<>>)

-----------------------------------------------------------------------------
(* think() *)

Max(a, b) == IF a > b THEN a ELSE b
Min(a, b) == IF a < b THEN a ELSE b

\* the window taken from the front: self.memory[:10]
RecentFirst(mem) == SubSeq(mem, 1, Min(Len(mem), RecentWindow))

\* self.memory[-10:]
Recent(mem) == SubSeq(mem, Max(1, Len(mem) - RecentWindow + 1), Len(mem))

\* think() with memory kept to the window: self.memory = self.memory[-10:]
ParseCapped(text, mem, now) ==
    LET r == JsonLoads(text)
    IN  IF r.ok
        THEN [decision |-> r.value,
              memory |-> Recent(Append(mem, [timestamp |-> now, decision |-> r.value])),
              events |-> << <<"memory.append", r.value>> >>]
        ELSE [decision |-> Fallback, memory |-> mem,
              events |-> << <<"logger.error", text>> >>]

\* lines 73-81: decode the response; store the decision; or fall back
Parse(text, mem, now) ==
    LET r == JsonLoads(text)
    IN  IF r.ok
        THEN [decision |-> r.value,
              memory |-> Append(mem, [timestamp |-> now, decision |-> r.value]),
              events |-> << <<"memory.append", r.value>> >>]
        ELSE [decision |-> Fallback, memory |-> mem,
              events |-> << <<"logger.error", text>> >>]

\* decision[key]
Subscript(d, key) ==
    IF ~d.object THEN "TypeError" ELSE IF key \notin d.keys THEN "KeyError" ELSE ""

Dispatched(d) == <<"execute_action", d.action, d.parameters>>
Left(o) == IF o.exc = "" THEN <<"return", o.result>> ELSE <<"raise", o.exc>>

\* execute_action(decision['action'], decision['parameters']); the events are
\* the call, what the dispatcher did, and how the call ended
Dispatch(d, g, c, fault) ==
    IF Subscript(d, "action") # "" THEN Outcome(Subscript(d, "action"), NoResult, g, c, <<>>)
    ELSE IF Subscript(d, "parameters") # ""
         THEN Outcome(Subscript(d, "parameters"), NoResult, g, c, <<>>)
    ELSE LET o == execute_action(d.action, d.parameters, g, c, fault)
         IN  [o EXCEPT !.events = <<Dispatched(d)>> \o o.events \o <<Left(o)>>]

\* ai_loop, lines 149-153: dispatch unless the action is 'none'
LoopBody(d, g, c, fault) ==
    IF Subscript(d, "action") # "" THEN Outcome(Subscript(d, "action"), NoResult, g, c, <<>>)
    ELSE IF d.action # "none" THEN Dispatch(d, g, c, fault)
    ELSE Outcome("", NoResult, g, c, <<>>)

\* interact_with_ai, lines 174-180: dispatch, then build the response
InteractBody(d, g, c, fault) ==
    LET o == Dispatch(d, g, c, fault)
    IN  IF o.exc # "" THEN o
        ELSE IF Subscript(d, "thought_process") # ""
             THEN [o EXCEPT !.exc = Subscript(d, "thought_process"), !.result = NoResult]
        ELSE IF Subscript(d, "explanation") # ""
             THEN [o EXCEPT !.exc = Subscript(d, "explanation"), !.result = NoResult]
        ELSE o

\* a narrower clause: except (KeyError, TypeError)
CaughtNarrow(exc) == exc \in {"KeyError", "TypeError"}

\* except Exception: every exception raised in a cycle derives from Exception
Exceptions == {"TypeError", "KeyError", "APIError", "NotFound", "OracleError"}
Caught(exc) == exc \in Exceptions

\* get_system_state(): the four listings of the docker client
get_system_state(c, fault) ==
    [exc |-> IF fault = 0 THEN "" ELSE "APIError", state |-> c,
     events |-> <<Backend("list", "*")>>]

-----------------------------------------------------------------------------
(* The steps of the two tasks *)

\* The oracle's answers: those of the full specification; fewer of them where
\* memory grows past the window; and those of the specification that counts
\* the failed cycles of ai_loop
AllTexts ==
    {TxtNotJson, TxtNone, TxtUnknown, TxtUnknownScalar, TxtDelete, TxtDeleteNoName,
     TxtDeleteScalar, TxtSetGoal, TxtSetGoal2}
LongTexts == {TxtNotJson, TxtNone}
FailTexts == {TxtNotJson, TxtNone, TxtDelete, TxtDeleteNoName, TxtSetGoal}
\* answers that decode but are no decision; one answer for every handler;
\* and the answers of the specification that has the read-only endpoints
ParseTexts == {TxtNotJson, TxtNumber, TxtNoParams, TxtNone, TxtDeleteScalar, TxtDelete}
HandlerTexts ==
    {TxtCreate, TxtDelete, TxtModify, TxtSetGoal, TxtSetGoalExtra, TxtList, TxtLogs, TxtExec}
ApiTexts == {TxtNotJson, TxtNone, TxtDelete, TxtSetGoal, TxtSetGoal2}

Observation(p, step, events, exc, decided, d, result) ==
    [task |-> p, step |-> step, events |-> events, exc |-> exc,
     decided |-> decided, decision |-> d, result |-> result]

\* ai_loop with  continue  in the except clause: a failed cycle is retried
\* at once
ParkedRetry(p, exc) ==
    IF p = Loop
    THEN IF exc = "" THEN "sleep" ELSE "ready"
    ELSE "ready"

\* where the task is parked after the step: ai_loop in one of its two sleeps
\* (line 155, line 159), or ended if the exception is not one it catches;
\* a request is answered (200, or 500 for an exception) and its task is over
Parked(p, exc) ==
    IF p = Loop
    THEN IF exc = "" THEN "sleep" ELSE IF Caught(exc) THEN "sleep_except" ELSE "ended"
    ELSE "ready"

\* the streak counter saturates at sat (0: the specification does not count)
Streak(p, exc, sat) ==
    IF p # Loop THEN streak ELSE IF exc = "" THEN 0 ELSE Min(streak + 1, sat)

Init ==
    /\ memory = <<>>
    /\ goals = <<>>
    /\ containers \in SUBSET Units
    /\ clock = 0
    /\ pc = [p \in Tasks |-> "ready"]
    /\ ctx = [p \in Tasks |-> <<>>]
    /\ streak = 0
    /\ last = Observation("", "startup", <<>>, "", FALSE, Fallback, NoResult)

\* think(), lines 40-72: snapshot, read memory and goals, build the prompt,
\* and suspend in llm.ainvoke
Snapshot(p, sat) ==
    /\ pc[p] = "ready"
    /\ \E fault \in {0, 1} :
         \E s \in {get_system_state(containers, fault)} :
             /\ pc' = [pc EXCEPT ![p] = IF s.exc = "" THEN "awaiting" ELSE Parked(p, s.exc)]
             /\ ctx' = [ctx EXCEPT ![p] = IF s.exc = "" THEN Recent(memory) ELSE <<>>]
             /\ streak' = IF s.exc = "" THEN streak ELSE Streak(p, s.exc, sat)
             /\ last' = Observation(p, "snapshot", s.events, s.exc, FALSE, Fallback, NoResult)
    /\ UNCHANGED <<memory, goals, containers, clock>>

\* llm.ainvoke raises
OracleFails(p, sat) ==
    /\ pc[p] = "awaiting"
    /\ pc' = [pc EXCEPT ![p] = Parked(p, "OracleError")]
    /\ ctx' = [ctx EXCEPT ![p] = <<>>]
    /\ streak' = Streak(p, "OracleError", sat)
    /\ last' = Observation(p, "oracle", <<>>, "OracleError", FALSE, Fallback, NoResult)
    /\ UNCHANGED <<memory, goals, containers, clock>>

\* llm.ainvoke returns text: the rest of think() (lines 74-81) and then the
\* caller's code up to its next suspension point
Decide(p, texts, cap, sat) ==
    /\ pc[p] = "awaiting"
    /\ \E text \in texts, fault \in Faults :
         \E pr \in {Parse(text, memory, clock)} :
           \E o \in {IF p = Loop
                     THEN LoopBody(pr.decision, goals, containers, fault)
                     ELSE InteractBody(pr.decision, goals, containers, fault)} :
             /\ Len(pr.memory) <= cap
             /\ Len(o.goals) <= MaxGoals
             /\ memory' = pr.memory
             /\ clock' = IF pr.memory = memory THEN clock ELSE clock + 1
             /\ goals' = o.goals
             /\ containers' = o.containers
             /\ pc' = [pc EXCEPT ![p] = Parked(p, o.exc)]
             /\ ctx' = [ctx EXCEPT ![p] = <<>>]
             /\ streak' = Streak(p, o.exc, sat)
             /\ last' = Observation(p, "decide", pr.events \o o.events, o.exc, TRUE,
                                    pr.decision, o.result)

\* the sleep with a backoff: twice the interval in the except clause
SleepTimeBackoff(parked) ==
    IF parked = "sleep_except" THEN 2 * SleepInterval ELSE SleepInterval

\* the time ai_loop sleeps where it is parked: asyncio.sleep(60), lines 155, 159
SleepTime(parked) == SleepInterval

\* asyncio.sleep(60) is over: back to the top of while True
Wake ==
    /\ pc[Loop] \in {"sleep", "sleep_except"}
    /\ pc' = [pc EXCEPT ![Loop] = "ready"]
    /\ last' = Observation(Loop, "wake", << <<"sleep", SleepTime(pc[Loop]), pc[Loop]>> >>,
                           "", FALSE, Fallback, NoResult)
    /\ UNCHANGED <<memory, goals, containers, clock, ctx, streak>>

ai_loop(texts, cap, sat) ==
    \/ Snapshot(Loop, sat)
    \/ OracleFails(Loop, sat)
    \/ Decide(Loop, texts, cap, sat)
    \/ Wake

interact_with_ai(texts, cap) ==
    \/ Snapshot(Req, 0)
    \/ OracleFails(Req, 0)
    \/ Decide(Req, texts, cap, 0)

\* GET /system_state, lines 182-185
system_state ==
    /\ \E fault \in {0, 1} :
         \E s \in {get_system_state(containers, fault)} :
             last' = Observation("get_system_state", "read", s.events, s.exc, FALSE,
                                 Fallback, NoResult)
    /\ UNCHANGED <<memory, goals, containers, clock, pc, ctx, streak>>

\* GET /ai_goals, lines 187-190
get_ai_goals ==
    /\ last' = Observation("get_ai_goals", "read", <<>>, "", FALSE, Fallback,
                           Result("goals", goals))
    /\ UNCHANGED <<memory, goals, containers, clock, pc, ctx, streak>>

\* GET /ai_memory, lines 192-195
get_ai_memory ==
    /\ last' = Observation("get_ai_memory", "read", <<>>, "", FALSE, Fallback,
                           Result("memory", memory))
    /\ UNCHANGED <<memory, goals, containers, clock, pc, ctx, streak>>

endpoints == system_state \/ get_ai_goals \/ get_ai_memory

-----------------------------------------------------------------------------
(* Specifications *)

\* the full specification: every answer of the oracle, a short memory
Next == ai_loop(AllTexts, MaxMemory, 0) \/ interact_with_ai(AllTexts, MaxMemory)
Spec == Init /\ [][Next]_vars

\* memory grows past the window of ten entries
NextLong ==
    \/ ai_loop(LongTexts, MaxMemoryLong, 0)
    \/ interact_with_ai(LongTexts, MaxMemoryLong)
    \/ endpoints
SpecLong == Init /\ [][NextLong]_vars

\* the failed cycles of ai_loop are counted; the event loop runs a task that
\* can run, a sleep ends, and a call of the oracle returns or raises
NextDurable ==
    ai_loop(FailTexts, MaxMemory, MaxStreak) \/ interact_with_ai(FailTexts, MaxMemory)
SpecDurable ==
    Init /\ [][NextDurable]_vars /\ WF_vars(ai_loop(FailTexts, MaxMemory, MaxStreak))

\* answers that decode into something that is no decision
NextParse == ai_loop(ParseTexts, MaxMemory, 0) \/ interact_with_ai(ParseTexts, MaxMemory)
SpecParse == Init /\ [][NextParse]_vars

\* every handler of the table is dispatched
NextHandlers ==
    ai_loop(HandlerTexts, MaxMemory, 0) \/ interact_with_ai(HandlerTexts, MaxMemory)
SpecHandlers == Init /\ [][NextHandlers]_vars

\* the two tasks and the read-only endpoints
NextApi ==
    \/ ai_loop(ApiTexts, MaxMemory, 0)
    \/ interact_with_ai(ApiTexts, MaxMemory)
    \/ endpoints
SpecApi == Init /\ [][NextApi]_vars

-----------------------------------------------------------------------------
(* What the step just taken did *)

Events == last.events
At(kind) == {i \in 1..Len(Events) : Events[i][1] = kind}
Decided == last.step = "decide"
DispatchedAction(a) == \E i \in At("execute_action") : Events[i][2] = a
Recognized(a) == a \in DOMAIN action_dispatch

\* the same of the step being taken, for the properties of steps
EventsN == last'.events
AtN(kind) == {i \in 1..Len(EventsN) : EventsN[i][1] = kind}

-----------------------------------------------------------------------------
(* C1 *)

\* C1: ai_loop never ends, whatever fails and however often in a row, and
\* after a cycle that ended in the except clause it sleeps and then attempts
\* a further snapshot.
C1_LoopDurability ==
    /\ [](pc[Loop] # "ended")
    /\ \A n \in 1..MaxStreak :
         (pc[Loop] = "sleep_except" /\ streak = n)
            ~> (last.task = Loop /\ last.step = "snapshot")

\* MaxStreak cycles failed in a row, and the loop is in a further cycle
C1_Witness == streak = MaxStreak /\ pc[Loop] = "awaiting"

(* C2 *)

\* C2: when the oracle's text does not decode, the cycle appends a memory
\* entry that holds the fallback decision (action none, a thought_process that
\* tells of the error), and makes no backend call.
C2_FallbackRecorded ==
    (Decided /\ At("logger.error") # {}) =>
        /\ At("backend") = {}
        /\ Len(memory) > 0
        /\ memory[Len(memory)].decision.action = "none"
        /\ memory[Len(memory)].decision.thought_process = "Error in decision making"

(* C3 *)

\* C3: a call of execute_action with a name that is not in the table returns
\* {error: "Unknown action: <name>"}, whatever the parameters are: it raises
\* nothing, calls no handler, and leaves goals, the backend and memory (but
\* for the entry think() has appended, when the text decoded) as they were.
C3_UnknownAction ==
    [][\A i \in AtN("execute_action") :
          ~Recognized(EventsN[i][2]) =>
             /\ i + 1 \in AtN("return")
             /\ EventsN[i + 1][2] = Result("error", <<"Unknown action: ", EventsN[i][2]>>)
             /\ AtN("raise") = {}
             /\ AtN("handler") = {}
             /\ AtN("backend") = {}
             /\ goals' = goals
             /\ containers' = containers
             /\ memory' = IF AtN("memory.append") = {}
                          THEN memory
                          ELSE Append(memory, [timestamp |-> clock,
                                               decision |-> last'.decision])
      ]_vars

\* /interact has dispatched an unknown action with parameters that are no mapping
C3_Witness ==
    /\ last.task = Req
    /\ \E i \in At("execute_action") :
         ~Recognized(Events[i][2]) /\ ~Events[i][3].mapping
    /\ last.result.kind = "error"

(* C4 *)

\* C4: a decision whose action is "none" calls no handler and no operation
\* of the backend, and leaves the backend as it was, in ai_loop and in
\* /interact alike.
C4_NoneIsNoOp ==
    [][(last'.step = "decide" /\ last'.decision.object
            /\ "action" \in last'.decision.keys /\ last'.decision.action = "none") =>
          /\ AtN("handler") = {}
          /\ AtN("backend") = {}
          /\ containers' = containers
      ]_vars

\* /interact has passed a decision of the oracle with action none to execute_action
C4_Witness ==
    /\ Decided /\ last.task = Req
    /\ last.decision = Full("none", NoParams)
    /\ DispatchedAction("none")

(* C5 *)

\* C5: execute_action is never called with action "none", neither by ai_loop
\* nor by /interact.
C5_NoneNeverDispatched == ~DispatchedAction("none")

(* C6 *)

\* C6: a dispatch of a recognized action whose required parameters are
\* missing, or whose parameters are no mapping, ends in an error result that
\* execute_action returns; no exception leaves execute_action.
C6_ParameterErrorIsResult ==
    \A i \in At("execute_action") :
       (/\ Recognized(Events[i][2])
        /\ \/ ~Events[i][3].mapping
           \/ ~(action_dispatch[Events[i][2]].required \subseteq Keys(Events[i][3])))
       => /\ At("raise") = {}
          /\ \E j \in At("return") : Events[j][2].kind = "error"

(* C7 *)

\* C7: when the backend operation of a handler fails, execute_action returns
\* an error result; the failure does not leave execute_action as an exception.
C7_HandlerFailureIsResult ==
    \A i \in At("raise") : Events[i][2] \notin {"NotFound", "APIError"}

(* C8 *)

\* C8: a dispatch of set_goal with parameters {goal: g} appends g to the goal
\* list: g is its last element and the goals before keep their places.
C8_SetGoalAppends ==
    [][\A i \in AtN("execute_action") :
          (/\ EventsN[i][2] = "set_goal"
           /\ EventsN[i][3].mapping
           /\ Keys(EventsN[i][3]) = {"goal"})
          => /\ Len(goals') = Len(goals) + 1
             /\ goals'[Len(goals')] = Get(EventsN[i][3], "goal")
             /\ \A k \in 1..Len(goals) : goals'[k] = goals[k]
      ]_vars

\* set_goal has been dispatched with another goal in the list before it
C8_Witness ==
    /\ DispatchedAction("set_goal")
    /\ Len(goals) = 2
    /\ goals[1] # goals[2]
    /\ goals[2] = Get(last.decision.parameters, "goal")

(* C9 *)

\* C9: the memory context read for a prompt has at most 10 entries, never
\* more than have been appended, and is the last entries appended, in the
\* order of their appends.
C9_RecentContext ==
    [][\A p \in Tasks :
          (pc[p] = "ready" /\ pc'[p] = "awaiting") =>
             LET k == Len(ctx'[p])
             IN  /\ k <= RecentWindow
                 /\ k <= clock
                 /\ k = RecentWindow \/ k = Len(memory)
                 /\ \A i \in 1..k : ctx'[p][i] = memory[Len(memory) - k + i]
      ]_vars

\* a prompt is in flight whose context is ten entries, the oldest left out
C9_Witness ==
    /\ pc[Loop] = "awaiting"
    /\ Len(memory) > RecentWindow
    /\ Len(ctx[Loop]) = RecentWindow
    /\ ctx[Loop][1] # memory[1]
    /\ ctx[Loop][RecentWindow] = memory[Len(memory)]

(* C10 *)

\* C10: when a decision delete_container {name: x} is dispatched and x is
\* there, remove is called on x once, and the memory entry of the decision
\* carries a result whose message names x.
C10_DeleteRecorded ==
    (/\ Decided
     /\ last.decision.action = "delete_container"
     /\ last.result.kind = "message")
    => LET x == Get(last.decision.parameters, "name")
           entry == memory[Len(memory)]
       IN  /\ Cardinality({i \in At("backend") : Events[i] = Backend("remove", x)}) = 1
           /\ entry.decision = last.decision
           /\ "result" \in DOMAIN entry
           /\ \E k \in 1..Len(entry.result.text) : entry.result.text[k] = x

(* C11 *)

Valid(d) == d.object /\ d.keys = DecisionKeys /\ d.parameters.mapping

\* C11: every decision think() returns is valid (the four keys, parameters a
\* mapping) or is the fallback decision: text that decodes into anything
\* else yields the fallback.
C11_ValidOrFallback ==
    Decided => (Valid(last.decision) \/ last.decision = Fallback)

(* C12 *)

\* the number of entries memory held when the context was read
ReadAt(context) ==
    IF context = <<>> THEN 0 ELSE context[Len(context)].timestamp + 1

\* C12: when a task appends its decision, memory holds at most one entry that
\* was appended after the task read its memory context.
C12_OneDecisionStale ==
    [][\A p \in Tasks :
          (pc[p] = "awaiting" /\ last'.task = p /\ AtN("memory.append") # {})
             => Len(memory) - ReadAt(ctx[p]) <= 1
      ]_vars

(* C13 *)

\* C13: the goal list changes only in a step that dispatches set_goal, and
\* then by one goal appended at its end; every other step (a snapshot, a
\* failed cycle, another action, a read-only endpoint) leaves it as it is.
C13_GoalsAppendOnly ==
    [][\/ goals' = goals
       \/ /\ \E i \in AtN("execute_action") : EventsN[i][2] = "set_goal"
          /\ Len(goals') = Len(goals) + 1
          /\ SubSeq(goals', 1, Len(goals)) = goals
      ]_vars

\* GET /ai_goals shows two goals in the order they were set
C13_Witness ==
    /\ last.task = "get_ai_goals"
    /\ last.result.kind = "goals"
    /\ Len(goals) = 2
    /\ goals[1] # goals[2]
    /\ last.result.text = goals

(* C14 *)

Sleeps == {"sleep", "sleep_except"}

\* C14: a cycle of ai_loop whose snapshot or oracle call fails goes to sleep
\* with no memory entry appended, nothing dispatched, goals and the backend
\* unchanged; after a failed snapshot the oracle is not invoked.
C14_FailedCycleSkips ==
    [][(last'.task = Loop /\ last'.step \in {"snapshot", "oracle"} /\ last'.exc # "") =>
          /\ pc'[Loop] \in Sleeps
          /\ memory' = memory
          /\ goals' = goals
          /\ containers' = containers
          /\ AtN("execute_action") = {}
          /\ AtN("memory.append") = {}
      ]_vars

\* the oracle call of ai_loop has failed with entries in memory
C14_Witness ==
    /\ last.task = Loop
    /\ last.step = "oracle"
    /\ last.exc = "OracleError"
    /\ pc[Loop] = "sleep_except"
    /\ Len(memory) > 0

(* C15 *)

\* C15: between two cycles ai_loop sleeps once, for 60: a cycle that is over,
\* failed or not, leaves the loop in a sleep; a sleep is followed by the next
\* cycle and by no second sleep; and the sleep is of the fixed interval.
C15_OneFixedSleep ==
    [][/\ (last'.task = Loop /\ last'.step \in {"snapshot", "oracle", "decide"}
              /\ pc'[Loop] # "awaiting") => pc'[Loop] \in Sleeps
       /\ pc[Loop] \in Sleeps => pc'[Loop] \in {pc[Loop], "ready"}
       /\ (pc[Loop] # "ready" /\ pc'[Loop] = "ready") =>
             /\ pc[Loop] \in Sleeps
             /\ AtN("sleep") = {1}
             /\ EventsN[1][2] = 60
      ]_vars

\* ai_loop has slept the interval after a failed cycle and is at the next cycle
C15_Witness ==
    /\ last.step = "wake"
    /\ pc[Loop] = "ready"
    /\ Events[1][2] = SleepInterval
    /\ Events[1][3] = "sleep_except"

(* C16 *)

\* C16: every call of execute_action comes, in its cycle, after the append
\* of a memory entry that holds the decision being dispatched.
C16_RecordBeforeDispatch ==
    \A i \in At("execute_action") :
        \E j \in At("memory.append") : j < i /\ Events[j][2] = last.decision

(* C17 *)

BackendFailed == \E j \in At("raise") : Events[j][2] \in {"NotFound", "APIError"}

\* C17: a dispatch of a recognized action with all its required parameters,
\* the backend succeeding, returns the handler's result and raises nothing;
\* for set_goal the result is {message: "New goal set: <goal>"}.
C17_HandlerResultReturned ==
    \A i \in At("execute_action") :
       (/\ Recognized(Events[i][2])
        /\ Events[i][3].mapping
        /\ action_dispatch[Events[i][2]].required \subseteq Keys(Events[i][3])
        /\ ~BackendFailed)
       => /\ At("raise") = {}
          /\ \E j \in At("return") :
                /\ Events[j][2].kind \notin {"none", "error"}
                /\ Events[i][2] = "set_goal" =>
                      Events[j][2] = Result("message",
                                            <<"New goal set: ", Get(Events[i][3], "goal")>>)

(* C18 *)

ByName ==
    [delete_container |-> "remove", modify_container |-> "update",
     get_container_logs |-> "logs", execute_in_container |-> "exec_run"]

\* C18 as stated: a handler makes exactly one backend call; set_goal makes
\* one mutation of the goal list and no backend call.
C18_OneBackendCall ==
    \A i \in At("handler") :
        IF Events[i][2] = "set_goal"
        THEN At("backend") = {} /\ Cardinality(At("goals.append")) = 1
        ELSE Cardinality(At("backend")) = 1

\* C18, amended: create_container and list_containers make one call of the
\* docker client; a handler that addresses a unit by name fetches the unit
\* and, if it got it, makes one call of its operation on it; set_goal makes
\* one mutation of the goal list and no backend call; no call is made a
\* second time, and none after one that failed.
C18_FetchThenOperate ==
    \A i \in At("handler") :
        LET h == Events[i][2]
            calls == At("backend")
        IN  /\ h = "set_goal" => calls = {} /\ Cardinality(At("goals.append")) = 1
            /\ h \in {"create_container", "list_containers"} => Cardinality(calls) = 1
            /\ h \in DOMAIN ByName =>
                  /\ calls \in {{i + 1}, {i + 1, i + 2}}
                  /\ Events[i + 1][2] = "get"
                  /\ i + 2 \in calls =>
                        /\ Events[i + 2][2] = ByName[h]
                        /\ Events[i + 2][3] = Events[i + 1][3]
            /\ \A j \in calls, k \in calls : j # k => Events[j][2] # Events[k][2]
            /\ \A j \in At("raise"), k \in calls : k < j
            /\ BackendFailed => Cardinality(At("return")) = 0

\* delete_container has fetched db and removed it
C18_Witness ==
    /\ \E i \in At("handler") : Events[i][2] = "delete_container"
    /\ Cardinality(At("backend")) = 2
    /\ \E k \in At("backend") : Events[k][2] = "remove" /\ Events[k][3] = "db"
    /\ last.result.kind = "message"

(* C19 *)

\* C19: memory changes only by one entry appended at its end; a step that is
\* not the return of an oracle call leaves it as it is, and the return of an
\* oracle call with text that decodes appends one entry, the decision, also
\* when the cycles of the two tasks overlap.
C19_MemoryAppendOnly ==
    [][/\ \/ memory' = memory
          \/ /\ Len(memory') = Len(memory) + 1
             /\ SubSeq(memory', 1, Len(memory)) = memory
       /\ last'.step # "decide" => memory' = memory
       /\ (last'.step = "decide" /\ AtN("logger.error") = {}) =>
             /\ Len(memory') = Len(memory) + 1
             /\ memory'[Len(memory')].decision = last'.decision
      ]_vars

\* ai_loop has appended its decision while a request, which read memory
\* before that append, is waiting for the oracle; memory is past the window
C19_Witness ==
    /\ last.task = Loop
    /\ Decided
    /\ At("memory.append") # {}
    /\ pc[Req] = "awaiting"
    /\ ReadAt(ctx[Req]) < Len(memory)
    /\ Len(memory) > RecentWindow

====
